---- MODULE Spec2Model ----
(***************************************************************************)
(* Session / token lifecycle of bca-authkit: the AuthStorage class         *)
(* (storage.ts), the AuthAPI gateway (api.ts), the BiometricAuth wrapper    *)
(* (biometric.ts) and the AuthProvider controller (context.tsx).            *)
(*                                                                         *)
(* Conventions.  null / undefined is the empty sequence, a present value v  *)
(* is <<v>>.  Token identifiers are positive integers, 0 inside a record    *)
(* stands for an undefined optional field.  Every process is suspended at   *)
(* one awaited external call (gateway, store, platform); one action is the  *)
(* resolution of that call followed by the synchronous continuation of the  *)
(* JavaScript code up to the next awaited external call.  The functions of  *)
(* one render close over that render's `tokens` and `user`: a process keeps *)
(* them in `cap`, taken when the operation is invoked.                      *)
(***************************************************************************)
EXTENDS Integers, Sequences, FiniteSets, TLC

VARIABLES user, tokens, isLoading, error,   \* useState of AuthProvider
          secure, plain,                    \* SecureStore / AsyncStorage
          now,                              \* Date.now()
          ops,                              \* operations in flight
          ret,                              \* exit of an operation in the last step
          issued, faults,                   \* gateway issuances, store faults so far
          mounted,                          \* the mount effect has run
          interval,                         \* the auto-refresh interval's closure
          probe                             \* result of the last direct AuthStorage call

vars == <<user, tokens, isLoading, error, secure, plain, now, ops, ret,
          issued, faults, mounted, interval, probe>>

memVars   == <<user, tokens, isLoading, error>>
storeVars == <<secure, plain>>

----------------------------------------------------------------------------
(* Bounds of the model *)

T0 == 1000              \* Date.now() when the provider is constructed
MaxJumps == 1           \* advances of the clock
MaxIssued == 2          \* token records the gateway ever issues (one predates Init)
MaxFaults == 1          \* faults of the underlying stores in one run
ExpiresIn == 3600       \* the server's expiresIn, in seconds
TimeStep == 3600000     \* one advance of the clock, in ms (one hour)

----------------------------------------------------------------------------
(* Option values *)

None == <<>>
Some(x) == <<x>>
IsSome(o) == o # <<>>

----------------------------------------------------------------------------
(* JSON.stringify / JSON.parse: a text is the sequence of the <<key, value>>
   members that are defined; parsing gives 0 (undefined) for a missing key
   and throws on a text that is not JSON. *)

CorruptJson == << <<"", 0>> >>

JsonValid(j) == \A i \in 1..Len(j) : j[i][1] # ""

JsonMember(k, v) == IF v # 0 THEN << <<k, v>> >> ELSE <<>>

JsonField(j, k) ==
    IF \E i \in 1..Len(j) : j[i][1] = k
    THEN j[CHOOSE i \in 1..Len(j) : j[i][1] = k][2]
    ELSE 0

StringifyTokens(t) ==
    << <<"accessToken", t.accessToken>> >>
      \o JsonMember("refreshToken", t.refreshToken)
      \o JsonMember("idToken", t.idToken)
      \o << <<"expiresAt", t.expiresAt>> >>

ParseTokens(j) ==
    [accessToken  |-> JsonField(j, "accessToken"),
     refreshToken |-> JsonField(j, "refreshToken"),
     idToken      |-> JsonField(j, "idToken"),
     expiresAt    |-> JsonField(j, "expiresAt")]

StringifyUser(u) == << <<"id", u.id>> >> \o JsonMember("email", u.email)

ParseUser(j) == [id |-> JsonField(j, "id"), email |-> JsonField(j, "email")]

StringifyCredentials(c) ==
    << <<"email", c.email>>, <<"hashedPassword", c.hashedPassword>> >>

ParseCredentials(j) ==
    [email |-> JsonField(j, "email"), hashedPassword |-> JsonField(j, "hashedPassword")]

----------------------------------------------------------------------------
(* AuthStorage (storage.ts) *)

TOKENS == "bca_auth_tokens"
USER == "bca_auth_user"
BIOMETRIC_ENABLED == "bca_biometric_enabled"
REFRESH_TOKEN == "bca_refresh_token"
BIOMETRIC_CREDENTIALS == "bca_biometric_credentials"

SecureKeys == {TOKENS, REFRESH_TOKEN, BIOMETRIC_CREDENTIALS}
PlainKeys == {USER, BIOMETRIC_ENABLED}
StoreKeys == SecureKeys \cup PlainKeys

EmptySecure == [k \in SecureKeys |-> None]
EmptyPlain == [k \in PlainKeys |-> None]

\* A fault argument f names the primitive call of the operation that rejects
\* (1 = its first setItemAsync, 2 = its second), 0 when none does.

\* storeTokens: setItemAsync(TOKENS, JSON); then, only if tokens.refreshToken
\* is truthy, setItemAsync(REFRESH_TOKEN, refreshToken).
StoreTokens(sec, t, f) ==
    LET s1 == IF f = 1 THEN sec ELSE [sec EXCEPT ![TOKENS] = Some(StringifyTokens(t))]
        second == f # 1 /\ t.refreshToken # 0
        s2 == IF second /\ f # 2
              THEN [s1 EXCEPT ![REFRESH_TOKEN] = Some(t.refreshToken)]
              ELSE s1
    IN  [secure |-> s2, raised |-> f = 1 \/ (second /\ f = 2)]

\* getTokens: null when the TOKENS item is missing or does not parse;
\* otherwise the parsed record, its refreshToken overwritten by the
\* REFRESH_TOKEN item when there is one.
GetTokens(sec) ==
    IF ~IsSome(sec[TOKENS]) THEN None
    ELSE IF ~JsonValid(sec[TOKENS][1]) THEN None
    ELSE LET t == ParseTokens(sec[TOKENS][1])
         IN  IF IsSome(sec[REFRESH_TOKEN])
             THEN Some([t EXCEPT !.refreshToken = sec[REFRESH_TOKEN][1]])
             ELSE Some(t)

\* A deletion argument F is the set of keys whose deleteItemAsync / removeItem
\* rejects.  Every deletion of one call is started before the first await, and
\* the model lets all of them settle before the call returns.
DeleteKeys(st, keys, F) == [k \in DOMAIN st |-> IF k \in keys \ F THEN None ELSE st[k]]

ClearTokens(sec, F) == DeleteKeys(sec, {TOKENS, REFRESH_TOKEN}, F)

StoreUser(pl, u, f) ==
    [plain |-> IF f = 0 THEN [pl EXCEPT ![USER] = Some(StringifyUser(u))] ELSE pl,
     raised |-> f # 0]

GetUser(pl) ==
    IF ~IsSome(pl[USER]) THEN None
    ELSE IF ~JsonValid(pl[USER][1]) THEN None
    ELSE Some(ParseUser(pl[USER][1]))

ClearUser(pl, F) == DeleteKeys(pl, {USER}, F)

IsBiometricEnabled(pl) == pl[BIOMETRIC_ENABLED] = Some("true")

SetBiometricEnabled(pl, enabled, f) ==
    [plain |-> IF f = 0
               THEN [pl EXCEPT ![BIOMETRIC_ENABLED] =
                        Some(IF enabled THEN "true" ELSE "false")]
               ELSE pl,
     raised |-> f # 0]

StoreBiometricCredentials(sec, c, f) ==
    [secure |-> IF f = 0
                THEN [sec EXCEPT ![BIOMETRIC_CREDENTIALS] = Some(StringifyCredentials(c))]
                ELSE sec,
     raised |-> f # 0]

GetBiometricCredentials(sec) ==
    IF ~IsSome(sec[BIOMETRIC_CREDENTIALS]) THEN None
    ELSE IF ~JsonValid(sec[BIOMETRIC_CREDENTIALS][1]) THEN None
    ELSE Some(ParseCredentials(sec[BIOMETRIC_CREDENTIALS][1]))

\* Variant: a clearAll that forgets the two biometric items.
ClearAllKeepsBiometrics(sec, pl, F) ==
    [secure |-> ClearTokens(sec, F), plain |-> ClearUser(pl, F)]

\* Variant: a clearAll that forgets clearTokens.
ClearAllKeepsTokens(sec, pl, F) ==
    [secure |-> DeleteKeys(sec, {BIOMETRIC_CREDENTIALS}, F),
     plain  |-> DeleteKeys(ClearUser(pl, F), {BIOMETRIC_ENABLED}, F)]

\* clearAll: clearTokens, clearUser, removeItem(BIOMETRIC_ENABLED) and
\* deleteItemAsync(BIOMETRIC_CREDENTIALS) under Promise.all; never throws.
ClearAll(sec, pl, F) ==
    [secure |-> DeleteKeys(ClearTokens(sec, F), {BIOMETRIC_CREDENTIALS}, F),
     plain  |-> DeleteKeys(ClearUser(pl, F), {BIOMETRIC_ENABLED}, F)]

FiveMinutes == 5 * 60 * 1000

IsTokenExpired(t, time) == time >= t.expiresAt

\* Variant: a window that opens one millisecond late.
IsTokenExpiringSoonExclusive(t, time) == time > (t.expiresAt - FiveMinutes)

IsTokenExpiringSoon(t, time) == time >= (t.expiresAt - FiveMinutes)

----------------------------------------------------------------------------
(* Values *)

Users == {[id |-> 1, email |-> 1], [id |-> 2, email |-> 2]}

\* The account the gateway answers for in this model; the stored session of
\* Init belongs to the other one.
GatewayUsers == {u \in Users : u.id = 2}

PlaceholderHash == 1     \* 'hashed_password_placeholder'

Mounter == "mount"                 \* the effect that runs initializeAuth
Callers == {"a", "b"}              \* consumers of useAuth()
Procs == {Mounter} \cup Callers

LoginProcs == {"login", "loginWithBiometrics", "loginWithGoogle", "loginWithMicrosoft"}

\* History only: the biometric items of the store when an operation on them
\* was called.
NoBiometrics == [flag |-> None, credential |-> None]

Idle ==
    [stack |-> <<>>, pc |-> "", cap |-> [tokens |-> None, user |-> None],
     resp |-> None, exc |-> None, seen |-> None, cred |-> None,
     calls |-> <<>>, events |-> {}, had |-> NoBiometrics]

NoRet ==
    [op |-> "", result |-> "", value |-> FALSE, err |-> None,
     cap |-> [tokens |-> None, user |-> None],
     resp |-> None, exc |-> None, seen |-> None, calls |-> <<>>, events |-> {},
     had |-> NoBiometrics]

Top(r) == r.stack[Len(r.stack)]
Below(r) == SubSeq(r.stack, 1, Len(r.stack) - 1)
Pop(r) == [r EXCEPT !.stack = Below(r)]

At(p, proc, pc) == ops[p].stack # <<>> /\ Top(ops[p]) = proc /\ ops[p].pc = pc

Quiescent == \A p \in Procs : ops[p] = Idle

\* const isAuthenticated = !!user && !!tokens && !AuthStorage.isTokenExpired(tokens)
IsAuthenticated(u, t, time) == IsSome(u) /\ IsSome(t) /\ ~IsTokenExpired(t[1], time)

isAuthenticated == IsAuthenticated(user, tokens, now)

FaultCost(f) == IF f = 0 THEN 0 ELSE 1

----------------------------------------------------------------------------
(* Initial states: the provider has just been constructed (first render), over
   a store left by an earlier run of the program or damaged from outside. *)

StoredValid == [accessToken |-> 1, refreshToken |-> 1, idToken |-> 0,
                expiresAt |-> T0 + 3600000]
StoredExpired == [StoredValid EXCEPT !.expiresAt = T0 - 1000]
StoredExpiredNoRefresh == [StoredExpired EXCEPT !.refreshToken = 0]

SecureOf(t) == StoreTokens(EmptySecure, t, 0).secure
PlainOf(u) == StoreUser(EmptyPlain, u, 0).plain
StoredUser == CHOOSE u \in Users : u.id = 1

InitSessions ==
    { [secure |-> EmptySecure, plain |-> EmptyPlain],
      [secure |-> SecureOf(StoredValid), plain |-> PlainOf(StoredUser)],
      [secure |-> SecureOf(StoredExpired), plain |-> PlainOf(StoredUser)],
      [secure |-> SecureOf(StoredExpiredNoRefresh), plain |-> PlainOf(StoredUser)],
      [secure |-> SecureOf(StoredValid), plain |-> EmptyPlain],
      [secure |-> SecureOf(StoredExpired), plain |-> EmptyPlain],
      [secure |-> EmptySecure, plain |-> PlainOf(StoredUser)],
      [secure |-> [EmptySecure EXCEPT ![TOKENS] = Some(CorruptJson)],
       plain |-> PlainOf(StoredUser)],
      [secure |-> SecureOf(StoredValid),
       plain |-> [EmptyPlain EXCEPT ![USER] = Some(CorruptJson)]] }

WithBiometrics(s) ==
    [secure |-> StoreBiometricCredentials(s.secure,
                    [email |-> 1, hashedPassword |-> PlaceholderHash], 0).secure,
     plain |-> SetBiometricEnabled(s.plain, TRUE, 0).plain]

InitStores ==
    InitSessions \cup
    {WithBiometrics(s) : s \in {x \in InitSessions :
        GetTokens(x.secure) # None /\ GetUser(x.plain) # None}}

\* What the four reads of AuthStorage return over a store.
Reads(sec, pl) ==
    [tokens |-> GetTokens(sec), user |-> GetUser(pl),
     enabled |-> IsBiometricEnabled(pl), credentials |-> GetBiometricCredentials(sec)]

NoReads == Reads(EmptySecure, EmptyPlain)

NoProbe ==
    [op |-> "", arg |-> None, raised |-> FALSE, faulted |-> FALSE, got |-> None,
     had |-> NoReads, failed |-> {}, late |-> {}]

\* useState(null), useState(null), useState(true), useState(null)
Constructed(spentFaults) ==
    /\ user = None
    /\ tokens = None
    /\ isLoading = TRUE
    /\ error = None
    /\ \E s \in InitStores : secure = s.secure /\ plain = s.plain
    /\ now = T0
    /\ ops = [p \in Procs |-> Idle]
    /\ ret = NoRet
    /\ issued = 1
    /\ faults = spentFaults
    /\ mounted = FALSE
    /\ interval = None
    /\ probe = NoProbe

Init == Constructed(0)

----------------------------------------------------------------------------
(* Entering and leaving the async functions of AuthProvider.  These fragments
   set ops', ret' and isLoading'; the action that uses one sets the rest. *)

Started(proc, pc, calls) ==
    [Idle EXCEPT !.stack = <<proc>>, !.pc = pc, !.calls = calls,
                 !.cap = [tokens |-> tokens, user |-> user]]

LoginInFlight(o) == o.stack # <<>> /\ o.stack[1] = "login"

\* History only: a login that was in flight when a logout() was called, and
\* still is when that logout() returns, is marked as overtaken by it.  r is
\* the record of the operation that returns.
Overtaken(o, r) ==
    IF LoginInFlight(o) /\ r.stack[1] = "logout" /\ "during login" \in r.events
    THEN [o EXCEPT !.events = @ \cup {"logout completed"}]
    ELSE o

StoredBiometrics ==
    [flag |-> plain[BIOMETRIC_ENABLED], credential |-> secure[BIOMETRIC_CREDENTIALS]]

\* The operation of process p leaves: r is its record at that moment.
Exit(p, r, result, value, err) ==
    /\ ops' = [q \in Procs |-> IF q = p THEN Idle ELSE Overtaken(ops[q], r)]
    /\ ret' = [op |-> r.stack[1], result |-> result, value |-> value, err |-> err,
               cap |-> r.cap, resp |-> r.resp, exc |-> r.exc, seen |-> r.seen,
               calls |-> r.calls, events |-> r.events, had |-> r.had]

Continue(p, r) == ops' = [ops EXCEPT ![p] = r] /\ ret' = NoRet

\* logout(), up to its first await: setIsLoading(true); AuthAPI.logout when the
\* closure holds tokens, AuthStorage.clearAll otherwise.
LogoutEntry(p, r) ==
    /\ isLoading' = TRUE
    /\ Continue(p, [r EXCEPT !.stack = Append(@, "logout"),
                             !.pc = IF IsSome(r.cap.tokens) THEN "api_logout" ELSE "clearAll",
                             !.calls = IF IsSome(r.cap.tokens) THEN Append(@, "logout") ELSE @])

\* Variant: a catch that throws again without logout().
RefreshCatchNoLogout(p, r, msg) ==
    IF Len(r.stack) = 1
    THEN isLoading' = isLoading /\ Exit(p, r, "raised", FALSE, Some(msg))
    ELSE LogoutEntry(p, [Pop(r) EXCEPT !.exc = Some(msg)])

\* refreshToken()'s catch: logout(), then the error is thrown again.
RefreshCatch(p, r, msg) == LogoutEntry(p, [r EXCEPT !.exc = Some(msg)])

\* refreshToken(), up to its first await.
RefreshEntry(p, r0) ==
    LET r == [r0 EXCEPT !.stack = Append(@, "refreshToken")]
    IN  IF ~IsSome(r.cap.tokens) \/ r.cap.tokens[1].refreshToken = 0
        THEN RefreshCatch(p, r, "No refresh token available")
        ELSE /\ isLoading' = isLoading
             /\ Continue(p, [r EXCEPT !.pc = "api_refresh", !.calls = Append(@, "refresh")])

\* refreshToken() returns: to its caller, or into initializeAuth's finally.
RefreshReturn(p, r) ==
    IF Len(r.stack) = 1
    THEN isLoading' = isLoading /\ Exit(p, r, "returned", FALSE, None)
    ELSE isLoading' = FALSE /\ Exit(p, Pop(r), "returned", FALSE, None)

\* Variant: a logout() and an initializeAuth without setIsLoading(false) in
\* their finally.
LogoutReturnLeavesLoading(p, r) ==
    IF Len(r.stack) = 1
    THEN isLoading' = isLoading /\ Exit(p, r, "returned", FALSE, None)
    ELSE IF Top(Pop(r)) = "refreshToken"
    THEN IF Len(r.stack) = 2
         THEN isLoading' = isLoading /\ Exit(p, Pop(r), "raised", FALSE, r.exc)
         ELSE LogoutEntry(p, Pop(Pop(r)))
    ELSE isLoading' = isLoading /\ Exit(p, Pop(r), "returned", FALSE, None)

\* logout() returns after its finally (setIsLoading(false)).  Inside
\* refreshToken's catch the caught error is thrown next; inside initializeAuth
\* that lands in the inner catch, which calls logout() (line 158); the logout
\* of line 158 returns into initializeAuth's finally.
LogoutReturn(p, r) ==
    IF Len(r.stack) = 1
    THEN isLoading' = FALSE /\ Exit(p, r, "returned", FALSE, None)
    ELSE IF Top(Pop(r)) = "refreshToken"
    THEN IF Len(r.stack) = 2
         THEN isLoading' = FALSE /\ Exit(p, Pop(r), "raised", FALSE, r.exc)
         ELSE LogoutEntry(p, Pop(Pop(r)))
    ELSE isLoading' = FALSE /\ Exit(p, Pop(r), "returned", FALSE, None)

----------------------------------------------------------------------------
(* The auto-refresh effect: useEffect(..., [tokens, config.enableAutoRefresh])
   with config.enableAutoRefresh set. *)

\* Variant: an effect that returns no cleanup: the interval it set stays.
AutoRefreshEffectNoCleanup(old, t, live) == IF live /\ IsSome(t) THEN t ELSE old

\* The interval after a commit that leaves `tokens` at t, old being the
\* interval before it: the cleanup clears the old interval when tokens changed
\* or the provider unmounts (live is false); the effect sets one, whose
\* checkTokenExpiry closes over t, when t is not null.
AutoRefreshEffect(old, t, live) == IF live /\ IsSome(t) THEN t ELSE None

\* The render that follows a step which may have changed tokens or mounted.
Commit == interval' = AutoRefreshEffect(interval, tokens', mounted')

----------------------------------------------------------------------------
(* initializeAuth *)

\* useEffect(() => { initializeAuth(); }, []): setIsLoading(true), then the
\* reads of getTokens and getUser are awaited.
Mount ==
    /\ ~mounted
    /\ mounted' = TRUE
    /\ isLoading' = TRUE
    /\ Continue(Mounter, Started("initializeAuth", "read", <<>>))
    /\ UNCHANGED <<user, tokens, error, secure, plain, now, issued, faults, probe>>
    /\ Commit

\* Variant: an initializeAuth that never adopts what it read.
InitBranchRefreshFirst(storedTokens, storedUser, time) ==
    IF IsSome(storedTokens) /\ IsTokenExpired(storedTokens[1], time) THEN "refresh"
    ELSE "none"

\* The branch initializeAuth takes on what it read.
InitBranch(storedTokens, storedUser, time) ==
    IF IsSome(storedTokens) /\ IsSome(storedUser) /\ ~IsTokenExpired(storedTokens[1], time)
    THEN "adopt"
    ELSE IF IsSome(storedTokens) /\ IsTokenExpired(storedTokens[1], time)
    THEN "refresh"
    ELSE "none"

InitializeRead(p) ==
    /\ At(p, "initializeAuth", "read")
    /\ LET storedTokens == GetTokens(secure)
           storedUser == GetUser(plain)
           r == [ops[p] EXCEPT !.seen = Some([tokens |-> storedTokens, user |-> storedUser])]
           branch == InitBranch(storedTokens, storedUser, now)
       IN  IF branch = "adopt"
           THEN /\ tokens' = storedTokens /\ user' = storedUser
                /\ isLoading' = FALSE
                /\ Exit(p, r, "returned", FALSE, None)
           ELSE IF branch = "refresh"
           THEN /\ UNCHANGED <<tokens, user>>
                /\ RefreshEntry(p, r)
           ELSE /\ UNCHANGED <<tokens, user>>
                /\ isLoading' = FALSE
                /\ Exit(p, r, "returned", FALSE, None)
    /\ UNCHANGED <<error, secure, plain, now, issued, faults, mounted, probe>>
    /\ Commit

----------------------------------------------------------------------------
(* logout *)

Logout(p) ==
    /\ mounted /\ ops[p] = Idle
    /\ LogoutEntry(p, [Started("logout", "", <<>>) EXCEPT
                          !.stack = <<>>,
                          !.events = IF \E q \in Procs : LoginInFlight(ops[q])
                                     THEN {"during login"} ELSE {}])
    /\ UNCHANGED <<user, tokens, error, secure, plain, now, issued, faults,
                   mounted, interval, probe>>

\* AuthAPI.logout never throws: a failed fetch is caught and logged there.
LogoutApiDone(p) ==
    /\ At(p, "logout", "api_logout")
    /\ \E ok \in BOOLEAN :
         Continue(p, [ops[p] EXCEPT !.pc = "clearAll",
                        !.events = IF ok THEN @ ELSE @ \cup {"remote logout failed"}])
    /\ UNCHANGED <<user, tokens, isLoading, error, secure, plain, now, issued, faults,
                   mounted, interval, probe>>

\* clearAll settles; setUser(null); setTokens(null); setError(null); finally.
LogoutClearDone(p) ==
    /\ At(p, "logout", "clearAll")
    /\ \E F \in SUBSET StoreKeys :
         /\ faults + Cardinality(F) <= MaxFaults
         /\ faults' = faults + Cardinality(F)
         /\ LET c == ClearAll(secure, plain, F)
            IN  secure' = c.secure /\ plain' = c.plain
         /\ user' = None /\ tokens' = None /\ error' = None
         /\ LogoutReturn(p, [ops[p] EXCEPT
                !.events = IF F = {} THEN @ ELSE @ \cup {"deletion fault"}])
    /\ UNCHANGED <<now, issued, mounted, probe>>
    /\ Commit

----------------------------------------------------------------------------
(* AuthAPI responses *)

\* tokens: { accessToken, refreshToken, expiresAt: Date.now() + expiresIn * 1000 }
IssuedTokens(n, rt, time) ==
    [accessToken |-> n, refreshToken |-> rt, idToken |-> 0,
     expiresAt |-> time + (ExpiresIn * 1000)]

\* login, loginWithHash, loginWithGoogle, loginWithMicrosoft: the server may
\* leave refreshToken out.
LoginResponses(n, time) ==
    {[tokens |-> IssuedTokens(n, rt, time), user |-> Some(u)] :
        rt \in {0, n}, u \in GatewayUsers}

\* Variant: refreshToken: data.refreshToken, without the fallback.
RefreshResponsesNoFallback(n, old, time) ==
    {[tokens |-> IssuedTokens(n, rt, time), user |-> u] :
        rt \in {0, n}, u \in {None} \cup {Some(x) : x \in GatewayUsers}}

\* refreshToken: data.refreshToken || refreshToken; data.user may be missing.
RefreshResponses(n, old, time) ==
    {[tokens |-> IssuedTokens(n, rt, time), user |-> u] :
        rt \in {old, n}, u \in {None} \cup {Some(x) : x \in GatewayUsers}}

ApiFallback(proc) ==
    CASE proc = "login" -> "Login failed"
      [] proc = "loginWithBiometrics" -> "Hash login failed"
      [] proc = "loginWithGoogle" -> "Google OAuth login failed"
      [] proc = "loginWithMicrosoft" -> "Microsoft OAuth login failed"
      [] proc = "refreshToken" -> "Token refresh failed"

\* What a failed request throws: the server's message, or the fallback when
\* the error body has none (a transport error carries its own message and
\* takes the same path as a server message).
ApiFailures(proc) == {"Invalid credentials", ApiFallback(proc)}

----------------------------------------------------------------------------
(* refreshToken *)

RefreshToken(p) ==
    /\ mounted /\ ops[p] = Idle
    /\ RefreshEntry(p, [Started("refreshToken", "", <<>>) EXCEPT !.stack = <<>>])
    /\ UNCHANGED <<user, tokens, error, secure, plain, now, issued, faults,
                   mounted, interval, probe>>

\* Variant: a check that waits until the tokens have expired.
CheckTokenExpiryAfterExpiry(p) ==
    /\ ops[p] = Idle
    /\ IsSome(interval)
    /\ IsTokenExpired(interval[1], now)
    /\ RefreshEntry(p, [Started("refreshToken", "", <<>>) EXCEPT
                           !.stack = <<>>, !.events = {"timer"},
                           !.cap = [tokens |-> interval, user |-> user]])
    /\ UNCHANGED <<user, tokens, error, secure, plain, now, issued, faults,
                   mounted, interval, probe>>

\* The callback of the auto-refresh interval fires.  checkTokenExpiry calls
\* refreshToken(), the one of the render that set the interval, when the
\* tokens of its closure expire within five minutes, and only logs what
\* refreshToken throws.
CheckTokenExpiry(p) ==
    /\ ops[p] = Idle
    /\ IsSome(interval)
    /\ IsTokenExpiringSoon(interval[1], now)
    /\ RefreshEntry(p, [Started("refreshToken", "", <<>>) EXCEPT
                           !.stack = <<>>, !.events = {"timer"},
                           !.cap = [tokens |-> interval, user |-> user]])
    /\ UNCHANGED <<user, tokens, error, secure, plain, now, issued, faults,
                   mounted, interval, probe>>

RefreshApiDone(p) ==
    /\ At(p, "refreshToken", "api_refresh")
    /\ \/ /\ issued < MaxIssued
          /\ issued' = issued + 1
          /\ \E resp \in RefreshResponses(issued + 1, ops[p].cap.tokens[1].refreshToken, now) :
               /\ isLoading' = isLoading
               /\ Continue(p, [ops[p] EXCEPT !.resp = Some(resp), !.pc = "storeTokens"])
       \/ /\ issued' = issued
          /\ \E msg \in ApiFailures("refreshToken") :
               RefreshCatch(p, [ops[p] EXCEPT !.events = @ \cup {"gateway failed"}], msg)
    /\ UNCHANGED <<user, tokens, error, secure, plain, now, faults, mounted, interval, probe>>

\* await AuthStorage.storeTokens(response.tokens); setTokens(response.tokens);
\* then storeUser is awaited when the response carries a user.
RefreshStoreTokensDone(p) ==
    /\ At(p, "refreshToken", "storeTokens")
    /\ \E f \in 0..2 :
         LET resp == ops[p].resp[1]
             w == StoreTokens(secure, resp.tokens, f)
         IN  /\ faults + FaultCost(f) <= MaxFaults
             /\ (f = 2) => resp.tokens.refreshToken # 0
             /\ faults' = faults + FaultCost(f)
             /\ secure' = w.secure
             /\ IF w.raised
                THEN /\ tokens' = tokens
                     /\ RefreshCatch(p, [ops[p] EXCEPT !.events = @ \cup {"store fault"}],
                                     "Failed to store authentication tokens")
                ELSE /\ tokens' = Some(resp.tokens)
                     /\ IF IsSome(resp.user)
                        THEN /\ isLoading' = isLoading
                             /\ Continue(p, [ops[p] EXCEPT !.pc = "storeUser"])
                        ELSE RefreshReturn(p, ops[p])
    /\ UNCHANGED <<user, error, plain, now, issued, mounted, probe>>
    /\ Commit

RefreshStoreUserDone(p) ==
    /\ At(p, "refreshToken", "storeUser")
    /\ \E f \in 0..1 :
         LET resp == ops[p].resp[1]
             w == StoreUser(plain, resp.user[1], f)
         IN  /\ faults + FaultCost(f) <= MaxFaults
             /\ faults' = faults + FaultCost(f)
             /\ plain' = w.plain
             /\ IF w.raised
                THEN /\ user' = user
                     /\ RefreshCatch(p, [ops[p] EXCEPT !.events = @ \cup {"store fault"}],
                                     "Failed to store user information")
                ELSE /\ user' = resp.user
                     /\ RefreshReturn(p, ops[p])
    /\ UNCHANGED <<tokens, error, secure, now, issued, mounted, interval, probe>>

----------------------------------------------------------------------------
(* login, loginWithBiometrics, loginWithGoogle, loginWithMicrosoft *)

\* Variant: a login without the finally.
LoginFailKeepsLoading(p, r, msg) ==
    /\ error' = Some(msg)
    /\ isLoading' = isLoading
    /\ Exit(p, r, "raised", FALSE, Some(msg))

\* catch: setError(error.message || fallback); throw; finally setIsLoading(false)
LoginFail(p, r, msg) ==
    /\ error' = Some(msg)
    /\ isLoading' = FALSE
    /\ Exit(p, r, "raised", FALSE, Some(msg))

\* setIsLoading(true); setError(null); await AuthAPI.login(credentials)
Login(p) ==
    /\ mounted /\ ops[p] = Idle
    /\ isLoading' = TRUE
    /\ error' = None
    /\ Continue(p, Started("login", "fetch", <<"login">>))
    /\ UNCHANGED <<user, tokens, secure, plain, now, issued, faults, mounted, interval, probe>>

\* Variant: a login that hands whatever client id it has to AuthAPI.
LoginWithOAuthUnchecked(p, proc, configured, notConfigured) ==
    /\ mounted /\ ops[p] = Idle
    /\ isLoading' = TRUE
    /\ error' = None
    /\ Continue(p, [Started(proc, "promptAsync", <<"promptAsync">>) EXCEPT
                       !.events = IF configured THEN {} ELSE {"not configured"}])
    /\ UNCHANGED <<user, tokens, secure, plain, now, issued, faults, mounted, interval, probe>>

\* The client id is checked before AuthAPI is called; AuthAPI then awaits
\* request.promptAsync (the browser session).
LoginWithOAuth(p, proc, configured, notConfigured) ==
    /\ mounted /\ ops[p] = Idle
    /\ IF configured
       THEN /\ isLoading' = TRUE
            /\ error' = None
            /\ Continue(p, Started(proc, "promptAsync", <<"promptAsync">>))
       ELSE LoginFail(p, [Started(proc, "", <<>>) EXCEPT !.events = {"not configured"}],
                      notConfigured)
    /\ UNCHANGED <<user, tokens, secure, plain, now, issued, faults, mounted, interval, probe>>

\* config is a prop of AuthProvider, merged anew by every render: whether
\* config.oauth?.google?.clientId is set is an input of each call.
LoginWithGoogle(p) ==
    \E clientId \in BOOLEAN :
        LoginWithOAuth(p, "loginWithGoogle", clientId, "Google OAuth is not configured")

LoginWithMicrosoft(p) ==
    \E clientId \in BOOLEAN :
        LoginWithOAuth(p, "loginWithMicrosoft", clientId,
                       "Microsoft OAuth is not configured")

\* result.type !== 'success' throws; otherwise the code is exchanged.
OAuthPromptDone(p) ==
    /\ \E proc \in {"loginWithGoogle", "loginWithMicrosoft"} :
         /\ At(p, proc, "promptAsync")
         /\ \/ /\ UNCHANGED <<error, isLoading>>
               /\ Continue(p, [ops[p] EXCEPT !.pc = "fetch",
                                 !.calls = Append(@, IF proc = "loginWithGoogle"
                                                     THEN "oauth/google"
                                                     ELSE "oauth/microsoft")])
            \/ LoginFail(p, [ops[p] EXCEPT !.events = @ \cup {"oauth cancelled"}],
                         IF proc = "loginWithGoogle"
                         THEN "Google OAuth cancelled or failed"
                         ELSE "Microsoft OAuth cancelled or failed")
    /\ UNCHANGED <<user, tokens, secure, plain, now, issued, faults, mounted, interval, probe>>

\* The request of a login variant resolves: the response is kept and
\* Promise.all([storeTokens, storeUser]) is awaited, or the rejection is caught.
LoginApiDone(p) ==
    /\ \E proc \in LoginProcs :
         /\ At(p, proc, "fetch")
         /\ \/ /\ issued < MaxIssued
               /\ issued' = issued + 1
               /\ \E resp \in LoginResponses(issued + 1, now) :
                    /\ UNCHANGED <<error, isLoading>>
                    /\ Continue(p, [ops[p] EXCEPT !.resp = Some(resp), !.pc = "store"])
            \/ /\ issued' = issued
               /\ \E msg \in ApiFailures(proc) :
                    LoginFail(p, [ops[p] EXCEPT !.events = @ \cup {"gateway failed"}], msg)
    /\ UNCHANGED <<user, tokens, secure, plain, now, faults, mounted, interval, probe>>

\* Variant: a login that a completed logout() cancels.
SessionAfterLoginUnlessLoggedOut(o) ==
    IF "logout completed" \in o.events
    THEN [tokens |-> tokens, user |-> user]
    ELSE [tokens |-> Some(o.resp[1].tokens), user |-> o.resp[1].user]

\* setTokens(response.tokens); setUser(response.user)
SessionAfterLogin(o) == [tokens |-> Some(o.resp[1].tokens), user |-> o.resp[1].user]

\* Promise.all([storeTokens, storeUser]) settles; setTokens; setUser; finally.
LoginStoreDone(p) ==
    /\ \E proc \in LoginProcs :
         /\ At(p, proc, "store")
         /\ \E ft \in 0..2, fu \in 0..1 :
              LET resp == ops[p].resp[1]
                  wt == StoreTokens(secure, resp.tokens, ft)
                  wu == StoreUser(plain, resp.user[1], fu)
              IN  /\ faults + FaultCost(ft) + FaultCost(fu) <= MaxFaults
                  /\ (ft = 2) => resp.tokens.refreshToken # 0
                  /\ faults' = faults + FaultCost(ft) + FaultCost(fu)
                  /\ secure' = wt.secure
                  /\ plain' = wu.plain
                  /\ IF wt.raised \/ wu.raised
                     THEN /\ UNCHANGED <<tokens, user>>
                          /\ \E msg \in
                                (IF wt.raised THEN {"Failed to store authentication tokens"}
                                 ELSE {}) \cup
                                (IF wu.raised THEN {"Failed to store user information"}
                                 ELSE {}) :
                               LoginFail(p, [ops[p] EXCEPT !.events = @ \cup {"store fault"}],
                                         msg)
                     ELSE /\ tokens' = SessionAfterLogin(ops[p]).tokens
                          /\ user' = SessionAfterLogin(ops[p]).user
                          /\ error' = error
                          /\ isLoading' = FALSE
                          /\ Exit(p, ops[p], "returned", FALSE, None)
    /\ UNCHANGED <<now, issued, mounted, probe>>
    /\ Commit

----------------------------------------------------------------------------
(* BiometricAuth (biometric.ts) and the biometric operations *)

\* What BiometricAuth.authenticate throws for a result that is no success.
AuthenticateResults == {"success", "user_cancel", "lockout"}

AuthenticateError(result) ==
    CASE result = "user_cancel" -> "Authentication was cancelled"
      [] result = "not_enrolled" -> "No biometric authentication is enrolled"
      [] result = "not_available" -> "Biometric authentication is not available"
      [] OTHER -> "Authentication failed"

\* Variant: an enableBiometrics that throws like the login variants do.
BiometricFailAlwaysThrows(p, r, msg) ==
    /\ error' = Some(msg)
    /\ isLoading' = isLoading
    /\ Exit(p, r, "raised", FALSE, Some(msg))

\* How the operation in r ends on an error thrown inside its try block:
\* the login variant rethrows, enableBiometrics returns false.
BiometricFail(p, r, msg) ==
    IF Top(r) = "enableBiometrics"
    THEN /\ error' = Some(msg)
         /\ isLoading' = isLoading
         /\ Exit(p, r, "returned", FALSE, Some(msg))
    ELSE LoginFail(p, r, msg)

LoginWithBiometrics(p) ==
    /\ mounted /\ ops[p] = Idle
    /\ isLoading' = TRUE
    /\ error' = None
    /\ Continue(p, Started("loginWithBiometrics", "isBiometricEnabled", <<>>))
    /\ UNCHANGED <<user, tokens, secure, plain, now, issued, faults, mounted, interval, probe>>

\* Variant: a loginWithBiometrics that does not look at the enabled flag.
BiometricEnabledReadUnchecked(p) ==
    /\ At(p, "loginWithBiometrics", "isBiometricEnabled")
    /\ UNCHANGED <<error, isLoading>>
    /\ Continue(p, [ops[p] EXCEPT !.pc = "getBiometricCredentials"])
    /\ UNCHANGED <<user, tokens, secure, plain, now, issued, faults, mounted, interval, probe>>

\* isBiometricEnabled() resolves: throw unless it is true.
BiometricEnabledRead(p) ==
    /\ At(p, "loginWithBiometrics", "isBiometricEnabled")
    /\ IF IsBiometricEnabled(plain)
       THEN /\ UNCHANGED <<error, isLoading>>
            /\ Continue(p, [ops[p] EXCEPT !.pc = "getBiometricCredentials"])
       ELSE LoginFail(p, ops[p], "Biometric authentication is not enabled")
    /\ UNCHANGED <<user, tokens, secure, plain, now, issued, faults, mounted, interval, probe>>

BiometricCredentialsRead(p) ==
    /\ At(p, "loginWithBiometrics", "getBiometricCredentials")
    /\ LET storedCredentials == GetBiometricCredentials(secure)
       IN  IF IsSome(storedCredentials)
           THEN /\ UNCHANGED <<error, isLoading>>
                /\ Continue(p, [ops[p] EXCEPT !.cred = storedCredentials,
                                              !.pc = "checkCapabilities",
                                              !.calls = Append(@, "authenticate")])
           ELSE LoginFail(p, ops[p], "No biometric credentials found")
    /\ UNCHANGED <<user, tokens, secure, plain, now, issued, faults, mounted, interval, probe>>

\* enableBiometrics awaits BiometricAuth.checkCapabilities itself first.
EnableBiometrics(p) ==
    /\ mounted /\ ops[p] = Idle
    /\ Continue(p, [Started("enableBiometrics", "checkCapabilitiesFirst", <<>>)
                       EXCEPT !.had = StoredBiometrics])
    /\ UNCHANGED <<user, tokens, isLoading, error, secure, plain, now, issued, faults,
                   mounted, interval, probe>>

\* checkCapabilities: isAvailable = hasHardware && isEnrolled; the first one is
\* enableBiometrics' own probe, the second the one inside authenticate().
CapabilitiesDone(p) ==
    /\ \E proc \in {"loginWithBiometrics", "enableBiometrics"} :
       \E pc \in {"checkCapabilitiesFirst", "checkCapabilities"} :
         /\ At(p, proc, pc)
         /\ \E hasHardware \in BOOLEAN, isEnrolled \in BOOLEAN :
              IF hasHardware /\ isEnrolled
              THEN /\ UNCHANGED <<error, isLoading>>
                   /\ Continue(p, [ops[p] EXCEPT
                         !.pc = IF pc = "checkCapabilitiesFirst"
                                THEN "checkCapabilities" ELSE "authenticateAsync",
                         !.calls = IF pc = "checkCapabilitiesFirst"
                                   THEN Append(@, "authenticate")
                                   ELSE Append(@, "authenticateAsync")])
              ELSE BiometricFail(p, [ops[p] EXCEPT !.events = @ \cup {"not available"}],
                                 "Biometric authentication is not available")
    /\ UNCHANGED <<user, tokens, secure, plain, now, issued, faults, mounted, interval, probe>>

\* Variant: a loginWithBiometrics that does not await the challenge's result.
AuthenticateDoneIgnoringResult(p) ==
    /\ At(p, "loginWithBiometrics", "authenticateAsync")
    /\ \E result \in AuthenticateResults :
         /\ UNCHANGED <<error, isLoading>>
         /\ Continue(p, [ops[p] EXCEPT
               !.pc = "fetch",
               !.events = @ \cup {IF result = "success" THEN "challenge succeeded"
                                  ELSE "challenge failed"},
               !.calls = Append(@, "login-hash")])
    /\ UNCHANGED <<user, tokens, secure, plain, now, issued, faults, mounted, interval, probe>>

\* LocalAuthentication.authenticateAsync resolves.  loginWithBiometrics goes on
\* to AuthAPI.loginWithHash; enableBiometrics needs user.email of its closure
\* and then awaits storeBiometricCredentials.
AuthenticateDone(p) ==
    /\ \E proc \in {"loginWithBiometrics", "enableBiometrics"} :
         /\ At(p, proc, "authenticateAsync")
         /\ \E result \in AuthenticateResults :
              IF result # "success"
              THEN BiometricFail(p, [ops[p] EXCEPT !.events = @ \cup {"challenge failed"}],
                                 AuthenticateError(result))
              ELSE IF proc = "loginWithBiometrics"
              THEN /\ UNCHANGED <<error, isLoading>>
                   /\ Continue(p, [ops[p] EXCEPT
                         !.pc = "fetch",
                         !.events = @ \cup {"challenge succeeded"},
                         !.calls = Append(@, "login-hash")])
              ELSE IF ~IsSome(ops[p].cap.user) \/ ops[p].cap.user[1].email = 0
              THEN BiometricFail(p, [ops[p] EXCEPT !.events = @ \cup {"no email"}],
                                 "User email not available")
              ELSE /\ UNCHANGED <<error, isLoading>>
                   /\ Continue(p, [ops[p] EXCEPT
                         !.pc = "storeBiometricCredentials",
                         !.cred = Some([email |-> ops[p].cap.user[1].email,
                                        hashedPassword |-> PlaceholderHash])])
    /\ UNCHANGED <<user, tokens, secure, plain, now, issued, faults, mounted, interval, probe>>

EnableStoreCredentialsDone(p) ==
    /\ At(p, "enableBiometrics", "storeBiometricCredentials")
    /\ \E f \in 0..1 :
         LET w == StoreBiometricCredentials(secure, ops[p].cred[1], f)
         IN  /\ faults + FaultCost(f) <= MaxFaults
             /\ faults' = faults + FaultCost(f)
             /\ secure' = w.secure
             /\ IF w.raised
                THEN BiometricFail(p, [ops[p] EXCEPT !.events = @ \cup {"store fault"}],
                                   "Failed to store biometric credentials")
                ELSE /\ UNCHANGED <<error, isLoading>>
                     /\ Continue(p, [ops[p] EXCEPT !.pc = "setBiometricEnabled"])
    /\ UNCHANGED <<user, tokens, plain, now, issued, mounted, interval, probe>>

EnableSetFlagDone(p) ==
    /\ At(p, "enableBiometrics", "setBiometricEnabled")
    /\ \E f \in 0..1 :
         LET w == SetBiometricEnabled(plain, TRUE, f)
         IN  /\ faults + FaultCost(f) <= MaxFaults
             /\ faults' = faults + FaultCost(f)
             /\ plain' = w.plain
             /\ IF w.raised
                THEN BiometricFail(p, [ops[p] EXCEPT !.events = @ \cup {"store fault"}],
                                   "Failed to update biometric preference")
                ELSE /\ UNCHANGED <<error, isLoading>>
                     /\ Exit(p, ops[p], "returned", TRUE, None)
    /\ UNCHANGED <<user, tokens, secure, now, issued, mounted, interval, probe>>

DisableBiometrics(p) ==
    /\ mounted /\ ops[p] = Idle
    /\ Continue(p, [Started("disableBiometrics", "setBiometricEnabled", <<>>)
                       EXCEPT !.had = StoredBiometrics])
    /\ UNCHANGED <<user, tokens, isLoading, error, secure, plain, now, issued, faults,
                   mounted, interval, probe>>

DisableSetFlagDone(p) ==
    /\ At(p, "disableBiometrics", "setBiometricEnabled")
    /\ \E f \in 0..1 :
         LET w == SetBiometricEnabled(plain, FALSE, f)
         IN  /\ faults + FaultCost(f) <= MaxFaults
             /\ faults' = faults + FaultCost(f)
             /\ plain' = w.plain
             /\ IF w.raised
                THEN /\ error' = Some("Failed to update biometric preference")
                     /\ Exit(p, [ops[p] EXCEPT !.events = @ \cup {"store fault"}], "raised",
                             FALSE, Some("Failed to update biometric preference"))
                ELSE /\ error' = error
                     /\ Exit(p, ops[p], "returned", FALSE, None)
    /\ UNCHANGED <<user, tokens, isLoading, secure, now, issued, mounted, interval, probe>>

\* clearError is synchronous.
ClearError(p) ==
    /\ mounted /\ ops[p] = Idle
    /\ error # None
    /\ error' = None
    /\ ret' = NoRet
    /\ UNCHANGED <<user, tokens, isLoading, secure, plain, now, ops, issued, faults,
                   mounted, interval, probe>>

----------------------------------------------------------------------------
(* The clock.  An operation is short against the hour of one advance:
   the clock moves only while no operation is in flight. *)

AdvanceTime ==
    /\ Quiescent
    /\ now + TimeStep <= T0 + (MaxJumps * TimeStep)
    /\ now' = now + TimeStep
    /\ ret' = NoRet
    /\ UNCHANGED <<user, tokens, isLoading, error, secure, plain, ops, issued, faults,
                   mounted, interval, probe>>

\* Time passes, with no operation in flight, until the tokens in memory
\* enter the five-minute window before their expiry.
AdvanceToWindow ==
    /\ Quiescent
    /\ IsSome(tokens)
    /\ now < tokens[1].expiresAt - FiveMinutes
    /\ now' = tokens[1].expiresAt - FiveMinutes
    /\ ret' = NoRet
    /\ UNCHANGED <<user, tokens, isLoading, error, secure, plain, ops, issued, faults,
                   mounted, interval, probe>>

----------------------------------------------------------------------------
(* Specifications *)

SessionCall(p) == Login(p) \/ Logout(p) \/ RefreshToken(p)

Call(p) ==
    \/ SessionCall(p)
    \/ LoginWithBiometrics(p) \/ LoginWithGoogle(p) \/ LoginWithMicrosoft(p)
    \/ EnableBiometrics(p) \/ DisableBiometrics(p) \/ ClearError(p)

SessionResolve(p) ==
    \/ InitializeRead(p)
    \/ LogoutApiDone(p) \/ LogoutClearDone(p)
    \/ RefreshApiDone(p) \/ RefreshStoreTokensDone(p) \/ RefreshStoreUserDone(p)
    \/ LoginApiDone(p) \/ LoginStoreDone(p)

Resolve(p) ==
    \/ SessionResolve(p)
    \/ OAuthPromptDone(p)
    \/ BiometricEnabledRead(p) \/ BiometricCredentialsRead(p)
    \/ CapabilitiesDone(p) \/ AuthenticateDone(p)
    \/ EnableStoreCredentialsDone(p) \/ EnableSetFlagDone(p) \/ DisableSetFlagDone(p)

\* The application is closed and started again: the provider is constructed
\* anew over the store as it is.
Restart ==
    /\ mounted /\ Quiescent
    /\ mounted' = FALSE
    /\ user' = None /\ tokens' = None /\ isLoading' = TRUE /\ error' = None
    /\ ret' = NoRet
    /\ UNCHANGED <<secure, plain, now, ops, issued, faults, probe>>
    /\ Commit

\* One consumer that awaits each operation before it issues the next, over
\* stores that may fault and a clock that advances.
SeqNext ==
    \/ Mount
    \/ Restart
    \/ AdvanceTime
    \/ Quiescent /\ Call("a")
    \/ Quiescent /\ CheckTokenExpiry("a")
    \/ \E p \in Procs : Resolve(p)

SeqSpec == Init /\ [][SeqNext]_vars

\* Consumers that issue the session operations (login, logout, refreshToken)
\* while others, initializeAuth included, are in flight, and the interval
\* that fires meanwhile.  The stores do not fault here.
Next ==
    \/ Mount
    \/ AdvanceTime
    \/ \E p \in Callers : SessionCall(p)
    \/ \E p \in Callers : CheckTokenExpiry(p)
    \/ \E p \in Procs : SessionResolve(p)

Spec == Constructed(MaxFaults) /\ [][Next]_vars

\* The continuations a login or a logout (initializeAuth's included) waits on.
LoginLogoutResolve(p) ==
    \/ InitializeRead(p)
    \/ LogoutApiDone(p) \/ LogoutClearDone(p)
    \/ LoginApiDone(p) \/ LoginStoreDone(p)

\* Consumers that call login and logout, and nothing else, while other
\* calls are in flight.  The stores do not fault and the clock stands still.
LoginLogoutNext ==
    \/ Mount
    \/ \E p \in Callers : Login(p)
    \/ \E p \in Callers : Logout(p)
    \/ \E p \in Procs : LoginLogoutResolve(p)

LoginLogoutSpec == Constructed(MaxFaults) /\ [][LoginLogoutNext]_vars

\* The interval at work: one consumer ("a") logs in and out, the provider may
\* be torn down and constructed again, the clock advances, and the interval's
\* callback runs on its own ("b") whenever it fires.  The stores do not fault.
OAuthLogins == {"loginWithGoogle", "loginWithMicrosoft"}

\* One consumer that awaits each call, here login, logout and the two OAuth
\* logins, over stores that may fault.
OAuthNext ==
    \/ Mount
    \/ Restart
    \/ Quiescent /\ Login("a")
    \/ Quiescent /\ Logout("a")
    \/ Quiescent /\ LoginWithGoogle("a")
    \/ Quiescent /\ LoginWithMicrosoft("a")
    \/ \E p \in Procs : LoginLogoutResolve(p)
    \/ \E p \in Procs : OAuthPromptDone(p)

OAuthSpec == Init /\ [][OAuthNext]_vars

TimerNext ==
    \/ Mount
    \/ Restart
    \/ AdvanceTime
    \/ AdvanceToWindow
    \/ Login("a")
    \/ Logout("a")
    \/ CheckTokenExpiry("b")
    \/ \E p \in Procs : SessionResolve(p)

TimerSpec == Constructed(MaxFaults) /\ [][TimerNext]_vars

\* setInterval(checkTokenExpiry, 60000): while the interval is set its
\* callback keeps firing, so a check that stays due is made; and every call
\* the refresh it started awaits settles, after which the event loop runs the
\* continuation.
TimerLiveSpec ==
    /\ TimerSpec
    /\ WF_vars(CheckTokenExpiry("b"))
    /\ WF_vars(SessionResolve("b"))

----------------------------------------------------------------------------
(* AuthStorage called directly, one call at a time, each followed by
   getTokens(): the calls and arguments any consumer of the class may make. *)

TokenArgs ==
    [accessToken : {1, 2}, refreshToken : {0, 1, 2}, idToken : {0, 1},
     expiresAt : {T0 + 3600000}]

\* Promise.all rejects with the first rejection, without waiting for the
\* other promises: a call whose deletion rejects may return while deletions
\* it started are still pending.  These are the sets of keys whose deletion
\* can be pending when clearTokens, and when clearAll, returns, F being the
\* keys whose deletion rejects.
LateInClearTokens(F) ==
    IF F \cap {TOKENS, REFRESH_TOKEN} # {}
    THEN SUBSET ({TOKENS, REFRESH_TOKEN} \ F)
    ELSE {{}}

LateInClearAll(F) ==
    IF F \cap {BIOMETRIC_ENABLED, BIOMETRIC_CREDENTIALS} # {}
    THEN SUBSET (StoreKeys \ F)
    ELSE LateInClearTokens(F)

\* The harness issues a call once the deletions of the earlier ones settled.
ProbedDeleting(op, arg, raised, F, L) ==
    /\ probe.late = {}
    /\ probe' = [op |-> op, arg |-> arg, raised |-> raised, faulted |-> F # {},
                 got |-> GetTokens(secure'), had |-> NoReads,
                 failed |-> F, late |-> L]
    /\ UNCHANGED <<user, tokens, isLoading, error, now, ops, ret, issued, faults, mounted, interval>>

\* had keeps what the reads returned before a call during which the store
\* faulted.
Probed(op, arg, raised, faulted) ==
    /\ probe.late = {}
    /\ probe' = [op |-> op, arg |-> arg, raised |-> raised, faulted |-> faulted,
                 got |-> GetTokens(secure'),
                 had |-> IF faulted THEN Reads(secure, plain) ELSE NoReads,
                 failed |-> {}, late |-> {}]
    /\ UNCHANGED <<user, tokens, isLoading, error, now, ops, ret, issued, faults, mounted, interval>>

DirectStoreTokens ==
    \E t \in TokenArgs, f \in 0..2 :
        LET w == StoreTokens(secure, t, f)
        IN  /\ (f = 2) => t.refreshToken # 0
            /\ secure' = w.secure
            /\ plain' = plain
            /\ Probed("storeTokens", Some(t), w.raised, f # 0)

DirectClearTokens ==
    \E F \in SUBSET {TOKENS, REFRESH_TOKEN} :
        \E L \in LateInClearTokens(F) :
            /\ Cardinality(F) <= MaxFaults
            /\ secure' = ClearTokens(secure, F \cup L)
            /\ plain' = plain
            /\ ProbedDeleting("clearTokens", None, FALSE, F, L)

DirectStoreUser ==
    \E u \in Users, f \in 0..1 :
        LET w == StoreUser(plain, u, f)
        IN  /\ plain' = w.plain
            /\ secure' = secure
            /\ Probed("storeUser", None, w.raised, f # 0)

DirectClearAll ==
    \E F \in SUBSET StoreKeys :
        \E L \in LateInClearAll(F) :
            LET c == ClearAll(secure, plain, F \cup L)
            IN  /\ Cardinality(F) <= MaxFaults
                /\ secure' = c.secure
                /\ plain' = c.plain
                /\ ProbedDeleting("clearAll", None, FALSE, F, L)

\* A deletion that was pending when its call returned settles.
LateDeletion ==
    \E k \in probe.late :
        /\ secure' = DeleteKeys(secure, {k}, {})
        /\ plain' = DeleteKeys(plain, {k}, {})
        /\ probe' = [probe EXCEPT !.op = "late deletion", !.late = @ \ {k}]
        /\ UNCHANGED <<user, tokens, isLoading, error, now, ops, ret, issued, faults,
                       mounted, interval>>

DirectSetBiometricEnabled ==
    \E enabled \in BOOLEAN, f \in 0..1 :
        LET w == SetBiometricEnabled(plain, enabled, f)
        IN  /\ plain' = w.plain
            /\ secure' = secure
            /\ Probed("setBiometricEnabled", None, w.raised, f # 0)

DirectStoreBiometricCredentials ==
    \E u \in Users, f \in 0..1 :
        LET w == StoreBiometricCredentials(secure,
                     [email |-> u.email, hashedPassword |-> PlaceholderHash], f)
        IN  /\ u.email # 0
            /\ secure' = w.secure
            /\ plain' = plain
            /\ Probed("storeBiometricCredentials", None, w.raised, f # 0)

StoreNext ==
    \/ DirectStoreTokens \/ DirectClearTokens \/ DirectStoreUser \/ DirectClearAll
    \/ DirectSetBiometricEnabled \/ DirectStoreBiometricCredentials
    \/ LateDeletion

StoreSpec == Init /\ [][StoreNext]_vars

----------------------------------------------------------------------------
(* isTokenExpired and isTokenExpiringSoon called directly, on records that
   expire at several instants and at clock readings on both sides of each
   instant and of the start of the five-minute window before it. *)

ExpiryArgs ==
    {[StoredValid EXCEPT !.expiresAt = e] : e \in {T0, T0 + 300000, T0 + 3600000}}

ClockOffsets == {-300001, -300000, -299999, -150000, -1, 0, 1, 300000}

Readings(r) == {r.expiresAt + d : d \in ClockOffsets}

Asked(op, r, answer) ==
    /\ probe' = [NoProbe EXCEPT !.op = op, !.arg = Some(r), !.got = Some(answer)]
    /\ ret' = NoRet
    /\ UNCHANGED <<user, tokens, isLoading, error, secure, plain, ops, issued, faults,
                   mounted, interval>>

DirectIsTokenExpired ==
    \E r \in ExpiryArgs : \E time \in Readings(r) :
        /\ now' = time
        /\ Asked("isTokenExpired", r, IsTokenExpired(r, time))

DirectIsTokenExpiringSoon ==
    \E r \in ExpiryArgs : \E time \in Readings(r) :
        /\ now' = time
        /\ Asked("isTokenExpiringSoon", r, IsTokenExpiringSoon(r, time))

ExpiryNext == DirectIsTokenExpired \/ DirectIsTokenExpiringSoon

ExpirySpec == Init /\ [][ExpiryNext]_vars

----------------------------------------------------------------------------
(* Properties.  ret describes the operation that left in the last step, so a
   predicate on ret speaks of the state in which that operation has just
   returned or raised. *)

Left(op, result) == ret.op = op /\ ret.result = result

Count(seq, x) == Cardinality({i \in 1..Len(seq) : seq[i] = x})

SawExpiredSession ==
    /\ ret.op = "initializeAuth"
    /\ IsSome(ret.seen)
    /\ IsSome(ret.seen[1].tokens)
    /\ IsTokenExpired(ret.seen[1].tokens[1], now)

StoresEmpty == secure = EmptySecure /\ plain = EmptyPlain

\* C1: initialize() over a stored UserRecord and an expired TokenRecord that
\* carries a refresh token, with a gateway that does not reject the refresh
\* and a store that does not fault, ends authenticated, with a new TokenRecord
\* in memory and in the store, after exactly one refresh request.
C1_InitializeRefreshesExpiredSession ==
    ( /\ SawExpiredSession
      /\ ret.seen[1].tokens[1].refreshToken # 0
      /\ IsSome(ret.seen[1].user)
      /\ ret.events \cap {"gateway failed", "store fault", "deletion fault"} = {} )
    => /\ isAuthenticated
       /\ tokens # ret.seen[1].tokens
       /\ GetTokens(secure) = tokens
       /\ Count(ret.calls, "refresh") = 1

\* C2: when refreshToken() fails (no refresh token in its state, the gateway
\* rejects, or persisting the new tokens faults) the failure is raised to the
\* caller and, the deletions of the clean-up not faulting themselves, neither
\* memory nor the store holds a TokenRecord or a UserRecord.
C2_FailedRefreshLeavesNothing ==
    ( Left("refreshToken", "raised") /\ "deletion fault" \notin ret.events )
    => /\ IsSome(ret.err)
       /\ ~isAuthenticated
       /\ tokens = None /\ user = None
       /\ GetTokens(secure) = None /\ GetUser(plain) = None

C2_Witness_GatewayRejected ==
    /\ Left("refreshToken", "raised")
    /\ "gateway failed" \in ret.events
    /\ IsSome(ret.cap.user)
    /\ tokens = None /\ GetTokens(secure) = None

C4_NoOperationLeavesLoading == (mounted /\ Quiescent) => ~isLoading

C4_Witness_RaisedLogin ==
    /\ Left("login", "raised")
    /\ Quiescent
    /\ ~isLoading

\* C5: logout() always returns; memory then holds neither user nor tokens and,
\* the deletions not faulting, every stored record is gone, whatever the
\* remote logout call did.
C5_LogoutClearsEverything ==
    ret.op = "logout"
    => /\ ret.result = "returned"
       /\ user = None /\ tokens = None
       /\ ("deletion fault" \notin ret.events => StoresEmpty)

C5_Witness_RemoteLogoutFailed ==
    /\ Left("logout", "returned")
    /\ "remote logout failed" \in ret.events
    /\ IsSome(ret.cap.tokens)
    /\ StoresEmpty

\* C6: when login(credentials) fails, whatever the state before the call, the
\* error attribute holds the failure's message, the failure is raised, the
\* controller is unauthenticated, and after a gateway rejection the store
\* holds no TokenRecord the call could have written.
C6_FailedLoginEndsUnauthenticated ==
    Left("login", "raised")
    => /\ IsSome(ret.err) /\ error = ret.err
       /\ ~isAuthenticated
       /\ ("gateway failed" \in ret.events => ret.resp = None)

\* C7: initialize() over a stored UserRecord and a TokenRecord that is not
\* expired ends authenticated, with exactly the stored records in memory, and
\* sends no request to the gateway.
C7_InitializeAdoptsValidSession ==
    ( /\ ret.op = "initializeAuth"
      /\ IsSome(ret.seen)
      /\ IsSome(ret.seen[1].tokens) /\ IsSome(ret.seen[1].user)
      /\ ~IsTokenExpired(ret.seen[1].tokens[1], now) )
    => /\ ret.result = "returned"
       /\ isAuthenticated
       /\ tokens = ret.seen[1].tokens /\ user = ret.seen[1].user
       /\ tokens = GetTokens(secure) /\ user = GetUser(plain)
       /\ ret.calls = <<>>

C7_Witness_Adopted ==
    /\ Left("initializeAuth", "returned")
    /\ tokens = Some(StoredValid)
    /\ user = Some(StoredUser)
    /\ ret.calls = <<>>

\* C8: initialize() over a store whose TokenRecord or UserRecord reads as
\* absent (nothing stored, or an item that does not decode) ends with loading
\* false, unauthenticated, and with no error reported.
C8_InitializeWithoutSession ==
    ( /\ ret.op = "initializeAuth"
      /\ IsSome(ret.seen)
      /\ (ret.seen[1].tokens = None \/ ret.seen[1].user = None) )
    => /\ ret.result = "returned"
       /\ ~isLoading
       /\ ~isAuthenticated
       /\ error = None

C8_Witness_Undecodable ==
    /\ Left("initializeAuth", "returned")
    /\ ret.seen[1].tokens = None
    /\ secure[TOKENS] = Some(CorruptJson)
    /\ ~isLoading /\ error = None

\* C9: initialize() over an expired stored TokenRecord whose refresh attempt
\* fails returns without raising, unauthenticated, with loading false and,
\* the deletions not faulting, with every stored record cleared.
C9_InitializeLogsOutWhenRefreshFails ==
    ( SawExpiredSession /\ IsSome(ret.exc) )
    => /\ ret.result = "returned"
       /\ ~isAuthenticated
       /\ tokens = None /\ user = None
       /\ ~isLoading
       /\ ("deletion fault" \notin ret.events => StoresEmpty)

C9_Witness_ClearedAfterFailedRefresh ==
    /\ SawExpiredSession
    /\ IsSome(ret.exc)
    /\ IsSome(ret.seen[1].user)
    /\ StoresEmpty
    /\ ~isLoading

\* C10: storeTokens(r) followed by getTokens() gives exactly r, for every
\* TokenRecord r with or without a refreshToken and whatever the store held;
\* clearTokens() followed by getTokens() gives absent.
C10_StoreThenGetRoundTrip ==
    /\ (probe.op = "storeTokens" /\ ~probe.faulted) => probe.got = probe.arg
    /\ (probe.op = "clearTokens" /\ ~probe.faulted) => probe.got = None

Writes == {"storeTokens", "storeUser", "setBiometricEnabled", "storeBiometricCredentials"}

\* C11: a write of AuthStorage during which the underlying store faults
\* raises, and every read made after it returns what it returned before the
\* write: no partially overwritten record is observed.
C11_FaultedWriteLeavesStoreUntouched ==
    (probe.op \in Writes /\ probe.faulted)
    => /\ probe.raised
       /\ Reads(secure, plain) = probe.had

StoreOf(k) == IF k \in SecureKeys THEN secure[k] ELSE plain[k]

\* C12: clearAll() never raises, and when it returns every deletion that did
\* not itself fault has run to completion: the item is gone.
C12_ClearAllDeletesIndependently ==
    probe.op = "clearAll"
    => /\ ~probe.raised
       /\ \A k \in StoreKeys \ probe.failed : StoreOf(k) = None

\* C13: isTokenExpired(r) at time t is (t >= r.expiresAt), and
\* isTokenExpiringSoon(r) at time t is (t >= r.expiresAt - 300000): true from
\* 300 s before expiry on, false at every earlier time.
C13_ExpiryPredicates ==
    /\ probe.op = "isTokenExpired"
       => probe.got = Some(now >= probe.arg[1].expiresAt)
    /\ probe.op = "isTokenExpiringSoon"
       => /\ probe.got = Some(now >= probe.arg[1].expiresAt - 300000)
          /\ (now >= probe.arg[1].expiresAt - 300000 /\ now < probe.arg[1].expiresAt)
             => probe.got = Some(TRUE)
          /\ now < probe.arg[1].expiresAt - 300000 => probe.got = Some(FALSE)

C13_Witness_WindowOpens ==
    /\ probe.op = "isTokenExpiringSoon"
    /\ now = probe.arg[1].expiresAt - 300000
    /\ probe.got = Some(TRUE)

RefreshesInFlight == {p \in Procs : At(p, "refreshToken", "api_refresh")}

\* C14: at no time are two requests to the gateway's refresh endpoint
\* unresolved together.
C14_SingleFlightRefresh == Cardinality(RefreshesInFlight) <= 1

\* C15: a login() that a logout() overtook (the logout was called while the
\* login was in flight, and returned before it) is not aborted: when it
\* returns, memory holds the tokens and the user of its response.
C15_LogoutDoesNotAbortLogin ==
    (Left("login", "returned") /\ "logout completed" \in ret.events)
    => /\ tokens = Some(ret.resp[1].tokens)
       /\ user = ret.resp[1].user
       /\ isAuthenticated

C15_Witness_LoginAfterLogout ==
    /\ Left("login", "returned")
    /\ "logout completed" \in ret.events
    /\ IsSome(ret.cap.tokens)
    /\ tokens = Some(ret.resp[1].tokens) /\ tokens # ret.cap.tokens
    /\ IsSome(user)

\* C16: loginWithBiometrics() over a store whose enabled flag is not true, or
\* that holds no BiometricCredential, raises; it has called neither
\* BiometricAuth.authenticate nor the gateway, and tokens and user in memory
\* are the ones it found.
C16_BiometricLoginNeedsFlagAndCredential ==
    ( /\ ret.op = "loginWithBiometrics"
      /\ (~IsBiometricEnabled(plain) \/ GetBiometricCredentials(secure) = None) )
    => /\ ret.result = "raised"
       /\ ret.calls = <<>>
       /\ tokens = ret.cap.tokens /\ user = ret.cap.user

C16_Witness_FlagOff ==
    /\ Left("loginWithBiometrics", "raised")
    /\ ~IsBiometricEnabled(plain)
    /\ IsSome(GetBiometricCredentials(secure))
    /\ ret.calls = <<>>
    /\ IsSome(tokens) /\ tokens = ret.cap.tokens

\* The loginWithHash request of an operation with these calls and events was
\* sent after its challenge was put and had succeeded.
HashAfterChallenge(calls, events) ==
    \A i \in 1..Len(calls) :
        calls[i] = "login-hash"
        => /\ \E j \in 1..(i - 1) : calls[j] = "authenticateAsync"
           /\ "challenge succeeded" \in events
           /\ events \cap {"challenge failed", "not available"} = {}

\* C17: a loginWithHash request is sent only after the challenge of the same
\* loginWithBiometrics() call succeeded; a call whose challenge failed, was
\* cancelled or was unavailable has sent none.
C17_HashLoginOnlyAfterChallenge ==
    /\ \A p \in Procs : HashAfterChallenge(ops[p].calls, ops[p].events)
    /\ HashAfterChallenge(ret.calls, ret.events)
    /\ ( /\ ret.op = "loginWithBiometrics"
         /\ ret.events \cap {"challenge failed", "not available"} # {} )
       => Count(ret.calls, "login-hash") = 0

C17_Witness_HashLoginSent ==
    /\ Left("loginWithBiometrics", "returned")
    /\ ret.calls = <<"authenticate", "authenticateAsync", "login-hash">>
    /\ "challenge succeeded" \in ret.events
    /\ IsSome(ret.resp) /\ tokens = Some(ret.resp[1].tokens)

Refusals == {"not available", "challenge failed", "no email"}

\* C18: enableBiometrics() that finds the hardware unavailable or not
\* enrolled, whose challenge is declined, or whose state holds no user email
\* returns false without raising, and the stored BiometricCredential and
\* enabled flag are the ones the call found.
C18_EnableBiometricsRefusesQuietly ==
    (ret.op = "enableBiometrics" /\ ret.events \cap Refusals # {})
    => /\ ret.result = "returned" /\ ret.value = FALSE
       /\ StoredBiometrics = ret.had

C18_Witness_NoEmail ==
    /\ Left("enableBiometrics", "returned")
    /\ "no email" \in ret.events
    /\ ret.value = FALSE
    /\ StoredBiometrics = NoBiometrics

\* C19: the stored BiometricCredential changes only in an enableBiometrics()
\* that completes (returns true), and once disableBiometrics() or, its
\* deletions not faulting, logout() has returned, getBiometricCredentials()
\* gives absent.
C19_CredentialOnlyWhileEnabled ==
    /\ (ret.op = "enableBiometrics" /\ ret.value = FALSE)
       => secure[BIOMETRIC_CREDENTIALS] = ret.had.credential
    /\ Left("disableBiometrics", "returned") => GetBiometricCredentials(secure) = None
    /\ (Left("logout", "returned") /\ "deletion fault" \notin ret.events)
       => GetBiometricCredentials(secure) = None

\* The TOKENS item of the store is a record without refreshToken, beside a
\* REFRESH_TOKEN item that an earlier record left.
LeftOver(sec) ==
    /\ IsSome(sec[TOKENS]) /\ JsonValid(sec[TOKENS][1])
    /\ ParseTokens(sec[TOKENS][1]).refreshToken = 0
    /\ IsSome(sec[REFRESH_TOKEN])

\* C20: no refresh request is sent for a session whose TokenRecord has no
\* refreshToken: refreshToken() over such a record in memory raises without
\* a request, and no request is in flight for the session read from a store
\* whose TokenRecord has none, whatever REFRESH_TOKEN item is left there.
C20_NoRefreshWithoutRefreshToken ==
    /\ ( /\ ret.op = "refreshToken"
         /\ IsSome(ret.cap.tokens) /\ ret.cap.tokens[1].refreshToken = 0 )
       => (ret.result = "raised" /\ Count(ret.calls, "refresh") = 0)
    /\ \A p \in Procs :
         (At(p, "refreshToken", "api_refresh") /\ LeftOver(secure))
         => ops[p].cap.tokens # GetTokens(secure)


GatewayProcs == LoginProcs \cup {"refreshToken"}

\* C21: when login(), loginWithBiometrics(), loginWithGoogle(),
\* loginWithMicrosoft() or refreshToken() fails because the gateway rejected
\* its request or could not be reached, the call raises with a message and,
\* once it has left, the error attribute holds that message.
C21_GatewayFaultIsMirrored ==
    (ret.op \in GatewayProcs /\ "gateway failed" \in ret.events)
    => /\ ret.result = "raised"
       /\ IsSome(ret.err)
       /\ error = ret.err


ExpiringSession ==
    /\ mounted
    /\ isAuthenticated
    /\ IsTokenExpiringSoon(tokens[1], now)
    /\ tokens[1].refreshToken # 0

TimerRefreshInFlight ==
    \E p \in Procs : At(p, "refreshToken", "api_refresh") /\ "timer" \in ops[p].events

\* C22: once the controller is authenticated with tokens (carrying a refresh
\* token) that are inside the five-minute window before their expiry, the
\* interval's check eventually sends a refresh request, no consumer calling
\* anything, unless the session has ended or its tokens were replaced by then.
C22_ExpiringTokensAreRefreshed ==
    ExpiringSession
    ~> \/ TimerRefreshInFlight
       \/ tokens = None
       \/ (IsSome(tokens) /\ ~IsTokenExpiringSoon(tokens[1], now))

C22_Witness_TimerRefreshAfterLogin ==
    /\ TimerRefreshInFlight
    /\ IsSome(tokens) /\ tokens[1].accessToken > 1
    /\ isAuthenticated
    /\ now = tokens[1].expiresAt - FiveMinutes
    /\ ops["a"] = Idle


\* A step of an OAuth login that has sent no code-exchange request: the call
\* itself, or its exit on a missing client id or a browser flow that did not
\* succeed.
OAuthStepBeforeExchange ==
    \/ \E p \in Procs : ops'[p].pc = "promptAsync" /\ ops[p] = Idle
    \/ /\ ret'.op \in OAuthLogins
       /\ ret'.events \cap {"not configured", "oauth cancelled"} # {}

\* C23: loginWithGoogle() / loginWithMicrosoft() without a client id raises
\* before the browser session or the gateway is called; with a browser flow
\* that ends cancelled or without success it raises without a code-exchange
\* request; in both cases tokens and user, in memory and in the store, stay
\* as the call found them.
C23_OAuthRefusalsChangeNothing ==
    /\ [](ret.op \in OAuthLogins /\ "not configured" \in ret.events
          => /\ ret.result = "raised"
             /\ ret.calls = <<>>
             /\ tokens = ret.cap.tokens /\ user = ret.cap.user)
    /\ [](ret.op \in OAuthLogins /\ "oauth cancelled" \in ret.events
          => /\ ret.result = "raised"
             /\ ret.calls = <<"promptAsync">>
             /\ tokens = ret.cap.tokens /\ user = ret.cap.user)
    /\ [][OAuthStepBeforeExchange => UNCHANGED <<user, tokens, secure, plain>>]_vars

C23_Witness_CancelledOverSession ==
    /\ Left("loginWithGoogle", "raised")
    /\ "oauth cancelled" \in ret.events
    /\ ret.calls = <<"promptAsync">>
    /\ IsSome(tokens) /\ tokens = GetTokens(secure)
    /\ IsSome(user) /\ user = GetUser(plain)


\* C24: while a consumer's call of login, loginWithBiometrics, loginWithGoogle,
\* loginWithMicrosoft, logout, refreshToken, enableBiometrics or
\* disableBiometrics waits on a gateway, storage or biometric call (the first
\* one included), and no other operation is in flight, loading is true.
C24_LoadingSetAtEntry ==
    \A p \in Callers :
        (ops[p] # Idle /\ \A q \in Procs \ {p} : ops[q] = Idle) => isLoading


TimerRefreshes ==
    {p \in Procs : ops[p].stack # <<>> /\ ops[p].stack[1] = "refreshToken"
                   /\ "timer" \in ops[p].events}

\* C25: the interval is set exactly while the provider is mounted with tokens
\* in memory, and its check reads those tokens: it is cleared when the
\* provider is torn down and when tokens become null, and set anew when they
\* are replaced.  Once the provider is torn down no refresh started by the
\* interval is in flight.
C25_IntervalClearedOnTeardown ==
    /\ interval = (IF mounted /\ IsSome(tokens) THEN tokens ELSE None)
    /\ ~mounted => TimerRefreshes = {}

C25_Witness_TornDownInsideWindow ==
    /\ ~mounted
    /\ issued > 1
    /\ IsSome(GetTokens(secure))
    /\ GetTokens(secure)[1].accessToken > 1
    /\ IsTokenExpiringSoon(GetTokens(secure)[1], now)
    /\ interval = None
    /\ TimerRefreshes = {}


AwaitingWrite(o) == o.stack # <<>> /\ o.pc \in {"store", "storeTokens"} /\ IsSome(o.resp)

\* C26: in login, loginWithBiometrics, loginWithGoogle, loginWithMicrosoft and
\* refreshToken the tokens of the gateway's response are in memory while the
\* storage writes of the call are pending, and are in memory when the call
\* has left, whether or not a write faulted.
C26_MemoryUpdatedBeforePersistence ==
    /\ \A p \in Callers :
         AwaitingWrite(ops[p]) => tokens = Some(ops[p].resp[1].tokens)
    /\ (ret.op \in GatewayProcs /\ IsSome(ret.resp))
       => tokens = Some(ret.resp[1].tokens)


\* C27: whenever no operation is in flight, user is present in memory exactly
\* when tokens is.
C27_UserIffTokens == Quiescent => (IsSome(user) <=> IsSome(tokens))


\* C28: whenever tokens are in memory and no operation is in flight,
\* getTokens() over the store returns the same record.
C28_StoreAgreesWithMemory ==
    (Quiescent /\ IsSome(tokens)) => GetTokens(secure) = tokens


\* C29: in every state of the store, if isBiometricEnabled() is true then
\* getBiometricCredentials() returns a credential.
C29_EnabledFlagImpliesCredential ==
    IsBiometricEnabled(plain) => IsSome(GetBiometricCredentials(secure))


LoginOrLogoutInFlight(o) ==
    o.stack # <<>> /\ o.stack[1] \in LoginProcs \cup {"logout"}

\* C30: while a login variant or a logout that a consumer called is in
\* flight, loading is true, whatever other operation has completed meanwhile.
C30_LoadingWhileInFlight ==
    (\E p \in Callers : LoginOrLogoutInFlight(ops[p])) => isLoading

====
